---- MODULE Spec2Model ----
(***************************************************************************)
(* State-machine model of the VMD foreground estimators.                   *)
(*                                                                         *)
(*  - ForegroundEstimetor / MovingCameraForegroundEstimetor: the facade    *)
(*    that orchestrates one tick (first_pass, smoothing, KLT, compensation,*)
(*    statistical update), with VMD.reset on top of it.                    *)
(*  - get_grid_coordinates / check_overlap / overlap: the grid geometry.   *)
(*  - MedianForegroundEstimation: the frame-median estimator.              *)
(*                                                                         *)
(* Python values are modelled as follows: booleans and the strings of the  *)
(* options are the strings "True", "False", "mixed", ...; None is the      *)
(* object NoneObj (for objects) or NoneInt (for the two grid dimensions);  *)
(* a grayscale frame is a tuple of rows, each a tuple of pixels 0..255.    *)
(* The collaborators KLTWrapper, CompensationModel and StatisticalModel    *)
(* are kept symbolic: their states and results are terms                   *)
(* [op, frame, args] that record which operation produced them from which  *)
(* inputs, so that the data flow of the facade is what the model decides.  *)
(***************************************************************************)
EXTENDS Integers, Sequences, FiniteSets, TLC

\* ------------------------------------------------------------ bounds

\* Heights, widths and block sizes range over 1..MaxDim (block size also 0).
MaxDim == 2
\* Number of calls of the estimator in one behaviour.
MaxCalls == 3
\* Grid geometry: block sizes 1..MaxGrid, image sides 1..2*MaxGrid.
MaxGrid == 2
\* MedianForegroundEstimation: num_frames in 1..MaxNumFrames.
MaxNumFrames == 2
\* MedianForegroundEstimation: number of calls in one behaviour.
MaxMedianCalls == 4

\* ------------------------------------------------------------ Python values

PyTrue == "True"
PyFalse == "False"
PyBool == {PyTrue, PyFalse}

\* Python truthiness of an option value (`if self.smooth:`).
Truthy(v) == v # PyFalse

\* None for the integer fields model_height / model_width.
NoneInt == -1

\* ------------------------------------------------------------ frames

NoFrame == <<>>

Height(f) == Len(f)
Width(f) == IF Len(f) = 0 THEN 0 ELSE Len(f[1])

\* The test image of shape (h, w): one bright pixel in the top-left corner
\* on a dark background.
SpikeFrame(h, w) ==
    [r \in 1..h |-> [c \in 1..w |-> IF r = 1 /\ c = 1 THEN 255 ELSE 0]]

Frames == {SpikeFrame(h, w) : h \in 1..MaxDim, w \in 1..MaxDim}

\* cv2 BORDER_REPLICATE, 1-based index p into 1..n.
Replicate(p, n) == IF p < 1 THEN 1 ELSE IF p > n THEN n ELSE p

\* cv2 BORDER_REFLECT_101 (the default border of GaussianBlur), 1-based.
RECURSIVE Reflect101(_, _)
Reflect101(p, n) ==
    IF n = 1 THEN 1
    ELSE IF p < 1 THEN Reflect101(2 - p, n)
    ELSE IF p > n THEN Reflect101(2 * n - p, n)
    ELSE p

\* The median of the 25 values of a 5x5 window: the 13th smallest.
WindowOffsets5 == (-2..2) \X (-2..2)

Median5At(f, r, c) ==
    LET h == Height(f)
        w == Width(f)
        val(o) == f[Replicate(r + o[1], h)][Replicate(c + o[2], w)]
        vals == {val(o) : o \in WindowOffsets5}
    IN CHOOSE v \in vals :
          /\ Cardinality({o \in WindowOffsets5 : val(o) < v}) <= 12
          /\ Cardinality({o \in WindowOffsets5 : val(o) <= v}) >= 13

\* cv2.medianBlur(frame, 5)
medianBlur(f) ==
    [r \in 1..Height(f) |-> [c \in 1..Width(f) |-> Median5At(f, r, c)]]

\* The fixed 7-tap kernel cv2 uses for ksize 7, sigma 0, scaled by 256.
GaussKernel7 == <<8, 28, 56, 72, 56, 28, 8>>

RECURSIVE SeqSum(_)
SeqSum(s) == IF s = <<>> THEN 0 ELSE Head(s) + SeqSum(Tail(s))

\* One output pixel: the 7x7 weighted sum in fixed point, rounded.
GaussAt(f, r, c) ==
    LET h == Height(f)
        w == Width(f)
        cell(i, j) == GaussKernel7[i] * GaussKernel7[j]
                      * f[Reflect101(r + i - 4, h)][Reflect101(c + j - 4, w)]
        row(i) == SeqSum([j \in 1..7 |-> cell(i, j)])
    IN (SeqSum([i \in 1..7 |-> row(i)]) + 32768) \div 65536

\* cv2.GaussianBlur(frame, (7, 7), 0)
GaussianBlur(f) ==
    [r \in 1..Height(f) |-> [c \in 1..Width(f) |-> GaussAt(f, r, c)]]

\* ------------------------------------------------------------ collaborators

\* A symbolic value: the operation that produced it, the frame it was given
\* (NoFrame when none) and the values it was computed from.
Term(op, frame, args) == [op |-> op, frame |-> frame, args |-> args]

\* Python's None, for the fields that hold objects.
NoneObj == Term("None", NoFrame, <<>>)

\* KLTWrapper(): a tracker that holds no frame yet.
KLTWrapper == Term("KLTWrapper", NoFrame, <<>>)

\* KLTWrapper.init(frame): the tracker retains the frame and its features.
KLT_init(klt, frame) == Term("KLT.init", frame, <<klt>>)

\* KLTWrapper.RunTrack(frame): the homography from the retained frame to
\* `frame`, and the tracker that has replaced its retained frame by `frame`.
RunTrack_H(klt, frame) == Term("H", frame, <<klt>>)
RunTrack_state(klt, frame) == Term("KLT.RunTrack", frame, <<klt>>)

\* CompensationModel(num_models, model_height, model_width, block_size, ...)
CompensationModel == Term("CompensationModel", NoFrame, <<>>)

\* StatisticalModel(num_models, model_height, model_width, block_size, ...)
StatisticalModel == Term("StatisticalModel", NoFrame, <<>>)

\* StatisticalModel.init(): zero means, var_init variances, zero ages.
Stat_init(stat) == Term("Stat.init", NoFrame, <<>>)

\* StatisticalModel.get_models(): the (means, vars, ages) the model holds.
get_models(stat) == stat

\* CompensationModel.init(means, vars, ages): the first warped state.
Comp_init(models) == Term("Comp.init", NoFrame, <<models>>)

\* CompensationModel.compensate(H, prev_means, prev_vars, prev_ages)
compensate(H, prev) == Term("compensate", NoFrame, <<H, prev>>)

\* StatisticalModel.get_foreground(frame, com_means, com_vars, com_ages):
\* the foreground map it returns and the (means, vars, ages) it holds after.
Stat_foreground(frame, com) == Term("foreground", frame, <<com>>)
Stat_update(frame, com) == Term("Stat.models", frame, <<com>>)

\* One logged call of a collaborator: its name, the frame and the values
\* handed to it.
Call(fn, frame, args) == Term(fn, frame, args)

\* ------------------------------------------------------------ outcomes

Returned(fg) == [kind |-> "return", err |-> "", fg |-> fg]
Raised(err) == [kind |-> "raise", err |-> err, fg |-> NoneObj]

\* ------------------------------------------------------------ state

VARIABLES
    \* the estimator instance (ForegroundEstimetor's fields)
    cls,                    \* the class that was constructed
    is_first,
    homography_calculator,
    compensation_models,
    statistical_models,
    model_height,
    model_width,
    num_models,
    block_size,
    dynamic,
    calc_probs,
    sensetivity,
    smooth,
    \* observation of the instance by its caller
    args,                   \* the arguments the constructor was called with
    inputs,                 \* the frames fed so far, in order
    outs,                   \* the outcome of each call, in order
    calls,                  \* the collaborator calls of the latest call, in order
    prev_models,            \* what statistical_models held before the latest call
    reset_at,               \* Len(inputs) at the latest VMD.reset, -1 if none
    \* grid geometry
    grid_size, img_size, coords, pair, pair_check, pair_overlap,
    \* MedianForegroundEstimation
    frames_history, num_frames, foreground, median_over, median_inputs

estimator_vars == <<cls, is_first, homography_calculator, compensation_models,
                    statistical_models, model_height, model_width, num_models,
                    block_size, dynamic, calc_probs, sensetivity, smooth,
                    args, inputs, outs, calls, prev_models, reset_at>>
grid_vars == <<grid_size, img_size, coords, pair, pair_check, pair_overlap>>
median_vars == <<frames_history, num_frames, foreground, median_over, median_inputs>>
vars == <<estimator_vars, grid_vars, median_vars>>

\* ------------------------------------------------------------ construction

BaseClass == "ForegroundEstimetor"
RegisteredClass == "MovingCameraForegroundEstimetor"

\* Values a caller may pass for the options (valid and invalid ones).
NumModelsValues == {1, 2}
BlockSizeValues == 0..MaxDim
SensetivityValues == {PyTrue, PyFalse, "mixed", "other"}

\* The defaults of the two constructors' signatures.
DefaultArgs ==
    [num_models |-> 2, block_size |-> 4, dynamic |-> PyFalse,
     calc_probs |-> PyFalse, sensetivity |-> "mixed", smooth |-> PyTrue]

\* ForegroundEstimetor.__init__(num_models, block_size, ..., dynamic,
\* calc_probs, sensetivity, smooth): the fields of the new instance.
ForegroundEstimetor_init(p_num_models, p_block_size, p_dynamic, p_calc_probs, p_sensetivity, p_smooth) ==
    [is_first |-> TRUE,
     homography_calculator |-> KLTWrapper,
     compensation_models |-> NoneObj,
     statistical_models |-> NoneObj,
     model_height |-> NoneInt,
     model_width |-> NoneInt,
     num_models |-> p_num_models,
     block_size |-> p_block_size,
     dynamic |-> p_dynamic,
     calc_probs |-> p_calc_probs,
     sensetivity |-> p_sensetivity,
     smooth |-> p_smooth]

\* MovingCameraForegroundEstimetor.__init__(num_models, block_size, ...,
\* calc_probs, sensetivity, smooth): it hands its twelve arguments to the
\* base constructor by position; the base constructor's tenth parameter is
\* dynamic, and its thirteenth (smooth) is left to its default True.
MovingCameraForegroundEstimetor_init(p_num_models, p_block_size, p_calc_probs, p_sensetivity, p_smooth) ==
    ForegroundEstimetor_init(p_num_models, p_block_size, p_calc_probs,
                             p_sensetivity, p_smooth, PyTrue)

\* foreground_estimators[name](**params) / a direct construction.
Construct(c, a) ==
    IF c = RegisteredClass
    THEN MovingCameraForegroundEstimetor_init(a.num_models, a.block_size,
             a.calc_probs, a.sensetivity, a.smooth)
    ELSE ForegroundEstimetor_init(a.num_models, a.block_size, a.dynamic,
             a.calc_probs, a.sensetivity, a.smooth)

\* ------------------------------------------------------------ one tick

\* The result of one call: the instance after it, its outcome and the
\* collaborator calls it made.
Tick(self, out, log) == [self |-> self, out |-> out, calls |-> log]

\* Mutant of DimsNotDividable: only the height is tested.
DimsNotDividable_height_only(h, w, b) == h % b # 0

\* `h % self.block_size or w % self.block_size`
DimsNotDividable(h, w, b) == (h % b # 0) \/ (w % b # 0)

\* ForegroundEstimetor.first_pass(gray_frame)
first_pass(self, gray_frame) ==
    LET s1 == [self EXCEPT !.is_first = FALSE]
        h == Height(gray_frame)
        w == Width(gray_frame)
        b == self.block_size
    IN  IF b = 0
        THEN Tick(s1, Raised("ZeroDivisionError"), <<>>)
        ELSE IF DimsNotDividable(h, w, b)
        THEN Tick(s1, Raised("IOError"), <<>>)
        ELSE
          LET klt == KLT_init(s1.homography_calculator, gray_frame)
              inited == get_models(Stat_init(StatisticalModel))
              com == Comp_init(inited)
              s2 == [s1 EXCEPT !.model_height = h \div b,
                               !.model_width = w \div b,
                               !.homography_calculator = klt,
                               !.compensation_models = com,
                               !.statistical_models = Stat_update(gray_frame, com)]
          IN Tick(s2, Returned(Stat_foreground(gray_frame, com)),
                  << Call("KLT.init", gray_frame, <<>>),
                     Call("Stat.init", NoFrame, <<>>),
                     Call("Comp.init", NoFrame, <<inited>>),
                     Call("Stat.get_foreground", gray_frame, <<com>>) >>)

\* cv2.medianBlur and cv2.GaussianBlur, tabulated over the frames of the model.
MedianBlurred == [f \in Frames |-> medianBlur(f)]
GaussianBlurred == [f \in Frames |-> GaussianBlur(f)]

\* The frame after the `if self.smooth:` block of get_foreground: the median
\* filter's result is bound to the name gary_frame, which nothing reads, and
\* the Gaussian filter is applied to gray_frame.
Smoothed(self, gray_frame) ==
    IF Truthy(self.smooth)
    THEN LET gary_frame == MedianBlurred[gray_frame]
         IN GaussianBlurred[gray_frame]
    ELSE gray_frame

\* Mutant of later_pass: compensate is given the warped state of the previous
\* call instead of the statistical model's state.
later_pass_stale_prev(self, gray_frame) ==
    LET frame == Smoothed(self, gray_frame)
    IN  IF self.statistical_models = NoneObj
        THEN Tick(self, Raised("AttributeError"), <<>>)
        ELSE
          LET prev == self.compensation_models
              H == RunTrack_H(self.homography_calculator, frame)
              com == compensate(H, prev)
              s1 == [self EXCEPT
                       !.homography_calculator =
                           RunTrack_state(self.homography_calculator, frame),
                       !.compensation_models = com,
                       !.statistical_models = Stat_update(frame, com)]
          IN Tick(s1, Returned(Stat_foreground(frame, com)),
                  << Call("KLT.RunTrack", frame, <<>>),
                     Call("Comp.compensate", NoFrame, <<H, prev>>),
                     Call("Stat.get_foreground", frame, <<com>>) >>)

\* ForegroundEstimetor.get_foreground(gray_frame) after the first frame.
later_pass(self, gray_frame) ==
    LET frame == Smoothed(self, gray_frame)
    IN  IF self.statistical_models = NoneObj
        THEN \* None.get_models()
             Tick(self, Raised("AttributeError"), <<>>)
        ELSE
          LET prev == get_models(self.statistical_models)
              H == RunTrack_H(self.homography_calculator, frame)
              com == compensate(H, prev)
              s1 == [self EXCEPT
                       !.homography_calculator =
                           RunTrack_state(self.homography_calculator, frame),
                       !.compensation_models = com,
                       !.statistical_models = Stat_update(frame, com)]
          IN Tick(s1, Returned(Stat_foreground(frame, com)),
                  << Call("KLT.RunTrack", frame, <<>>),
                     Call("Comp.compensate", NoFrame, <<H, prev>>),
                     Call("Stat.get_foreground", frame, <<com>>) >>)

\* Mutant of get_foreground: the first-frame initialisation is run whenever
\* the models are missing.
get_foreground_lazy_init(self, gray_frame) ==
    IF self.is_first \/ self.statistical_models = NoneObj
    THEN first_pass(self, gray_frame)
    ELSE later_pass(self, gray_frame)

\* ForegroundEstimetor.get_foreground(gray_frame) / __call__(gray_frame)
get_foreground(self, gray_frame) ==
    IF self.is_first
    THEN first_pass(self, gray_frame)
    ELSE later_pass(self, gray_frame)

\* hasattr(self.foreground_estimation_obj, 'reset'): neither estimator class
\* defines a reset method.
HasReset(c) == FALSE

\* VMD.reset(), as far as the foreground estimator is concerned: the
\* estimator's reset() is called only when it has one.
VMD_reset(c, self) ==
    IF HasReset(c)
    THEN [self EXCEPT !.is_first = TRUE]
    ELSE self

\* The instance as a record of its fields.
Self ==
    [is_first |-> is_first,
     homography_calculator |-> homography_calculator,
     compensation_models |-> compensation_models,
     statistical_models |-> statistical_models,
     model_height |-> model_height,
     model_width |-> model_width,
     num_models |-> num_models,
     block_size |-> block_size,
     dynamic |-> dynamic,
     calc_probs |-> calc_probs,
     sensetivity |-> sensetivity,
     smooth |-> smooth]

SetSelf(s) ==
    /\ is_first' = s.is_first
    /\ homography_calculator' = s.homography_calculator
    /\ compensation_models' = s.compensation_models
    /\ statistical_models' = s.statistical_models
    /\ model_height' = s.model_height
    /\ model_width' = s.model_width
    /\ num_models' = s.num_models
    /\ block_size' = s.block_size
    /\ dynamic' = s.dynamic
    /\ calc_probs' = s.calc_probs
    /\ sensetivity' = s.sensetivity
    /\ smooth' = s.smooth

\* ------------------------------------------------------------ grid geometry

\* Mutant of no_overflow: the last pixel is taken one too far.
no_overflow_exclusive(i, addition, limit) ==
    IF i + addition >= limit THEN limit - 1 ELSE i + addition

\* utiles.no_overflow(i, addition, limit)
no_overflow(i, addition, limit) ==
    IF i + addition >= limit THEN limit - 1 ELSE i + addition - 1

\* range(0, stop, step) as a sequence
RECURSIVE RangeFrom(_, _, _)
RangeFrom(start, stop, step) ==
    IF start >= stop THEN <<>>
    ELSE <<start>> \o RangeFrom(start + step, stop, step)

\* the inner loop of get_grid_coordinates: the cells of row y, appended
RECURSIVE GridRow(_, _, _, _, _)
GridRow(acc, xs, y, grid, size) ==
    IF xs = <<>> THEN acc
    ELSE LET x == Head(xs)
             x0 == x
             y0 == y
             x1 == no_overflow(x, grid, size[2])
             y1 == no_overflow(y, grid, size[1])
         IN GridRow(Append(acc, <<x0, y0, x1, y1>>), Tail(xs), y, grid, size)

\* the outer loop of get_grid_coordinates
RECURSIVE GridRows(_, _, _, _)
GridRows(acc, ys, grid, size) ==
    IF ys = <<>> THEN acc
    ELSE GridRows(GridRow(acc, RangeFrom(0, size[2], grid), Head(ys), grid, size),
                  Tail(ys), grid, size)

\* utiles.get_grid_coordinates(grid_size, img_size), img_size = (H, W)
get_grid_coordinates(grid, size) ==
    GridRows(<<>>, RangeFrom(0, size[1], grid), grid, size)

\* utiles.check_overlap(coords1, coords2)
check_overlap(coords1, coords2) ==
    IF \/ coords1[1] >= coords2[3] + 1
       \/ coords1[3] + 1 <= coords2[1]
       \/ coords1[4] + 1 <= coords2[2]
       \/ coords1[2] >= coords2[4] + 1
    THEN FALSE
    ELSE TRUE

Min(a, b) == IF a <= b THEN a ELSE b
Max(a, b) == IF a >= b THEN a ELSE b

\* utiles.overlap(coords1, coords2)
overlap(coords1, coords2) ==
    LET dx == Min(coords1[3] + 1, coords2[3] + 1) - Max(coords1[1], coords2[1])
        dy == Min(coords1[4] + 1, coords2[4] + 1) - Max(coords1[2], coords2[2])
    IN IF dx >= 0 /\ dy >= 0 THEN dx * dy ELSE 0

\* ------------------------------------------------------------ median estimator

\* The k-th smallest of the values of a non-empty sequence.
KthSmallest(vals, k) ==
    LET idx == 1..Len(vals)
    IN CHOOSE v \in {vals[i] : i \in idx} :
          /\ Cardinality({i \in idx : vals[i] < v}) < k
          /\ Cardinality({i \in idx : vals[i] <= v}) >= k

\* np.median(values).astype(np.uint8): the middle value, or the mean of the
\* two middle values with its fraction cut off.
MedianU8(vals) ==
    LET n == Len(vals)
    IN IF n % 2 = 1
       THEN KthSmallest(vals, (n + 1) \div 2)
       ELSE (KthSmallest(vals, n \div 2) + KthSmallest(vals, n \div 2 + 1)) \div 2

\* np.median(frames_history, axis=0).astype(dtype=np.uint8), per pixel
MedianBackground(history) ==
    [px \in 1..Len(history[1]) |->
        MedianU8([i \in 1..Len(history) |-> history[i][px]])]

\* cv.absdiff(frame, background), per pixel
absdiff(a, b) ==
    [px \in 1..Len(a) |-> IF a[px] >= b[px] THEN a[px] - b[px] ELSE b[px] - a[px]]

\* frames_history[-n:] for n >= 1
LastN(history, n) ==
    IF Len(history) <= n THEN history
    ELSE SubSeq(history, Len(history) - n + 1, Len(history))

\* The history MedianForegroundEstimation.__call__ keeps before it appends
\* the new frame.
TrimHistory(history, n) ==
    IF Len(history) = 0 THEN history
    ELSE IF Len(history) >= n THEN LastN(history, n)
    ELSE history

\* The foreground MedianForegroundEstimation.__call__ returns.
MedianForeground(history, frame) ==
    IF Len(history) = 0 THEN frame
    ELSE absdiff(frame, MedianBackground(history))

\* ------------------------------------------------------------ estimator: actions

InitSelf(s) ==
    /\ is_first = s.is_first
    /\ homography_calculator = s.homography_calculator
    /\ compensation_models = s.compensation_models
    /\ statistical_models = s.statistical_models
    /\ model_height = s.model_height
    /\ model_width = s.model_width
    /\ num_models = s.num_models
    /\ block_size = s.block_size
    /\ dynamic = s.dynamic
    /\ calc_probs = s.calc_probs
    /\ sensetivity = s.sensetivity
    /\ smooth = s.smooth

\* A freshly constructed instance of class c, built from the arguments a.
Constructed(c, a) ==
    /\ cls = c
    /\ args = a
    /\ InitSelf(Construct(c, a))
    /\ inputs = <<>>
    /\ outs = <<>>
    /\ calls = <<>>
    /\ prev_models = NoneObj
    /\ reset_at = -1

\* Every combination of option values, valid or not. The registered class
\* has no dynamic parameter.
AllArgs ==
    [num_models : NumModelsValues, block_size : BlockSizeValues \cup {4},
     dynamic : PyBool, calc_probs : PyBool,
     sensetivity : SensetivityValues, smooth : PyBool]

\* The configurations of the frame streams: every block size B > 0, with and
\* without smoothing, the other options at their defaults.
StreamArgs ==
    {[DefaultArgs EXCEPT !.block_size = b, !.smooth = s] :
        b \in 1..MaxDim, s \in PyBool}

ArgsOf(c, A) == IF c = RegisteredClass THEN {a \in A : a.dynamic = PyFalse} ELSE A

Classes == {BaseClass, RegisteredClass}

GridIdle ==
    /\ grid_size = 1
    /\ img_size = <<1, 1>>
    /\ coords = <<>>
    /\ pair = <<0, 0>>
    /\ pair_check = FALSE
    /\ pair_overlap = 0

MedianIdle ==
    /\ frames_history = <<>>
    /\ num_frames = 1
    /\ foreground = <<>>
    /\ median_over = 0
    /\ median_inputs = <<>>

\* estimator(frame): ForegroundEstimetor.__call__
CallWith(frame) ==
    LET t == get_foreground(Self, frame)
    IN /\ SetSelf(t.self)
       /\ inputs' = Append(inputs, frame)
       /\ outs' = Append(outs, t.out)
       /\ calls' = t.calls
       /\ prev_models' = statistical_models
       /\ UNCHANGED <<cls, args, reset_at, grid_vars, median_vars>>

Estimator_call ==
    /\ Len(inputs) < MaxCalls
    /\ \E frame \in Frames : CallWith(frame)

\* The first frame of an instance.
Estimator_first_call ==
    /\ inputs = <<>>
    /\ \E frame \in Frames : CallWith(frame)

\* VMD.reset()
Reset ==
    /\ SetSelf(VMD_reset(cls, Self))
    /\ reset_at' = Len(inputs)
    /\ UNCHANGED <<cls, args, inputs, outs, calls, prev_models,
                   grid_vars, median_vars>>

Init ==
    /\ \E c \in Classes : \E a \in ArgsOf(c, StreamArgs) : Constructed(c, a)
    /\ GridIdle
    /\ MedianIdle

Next == Estimator_call \/ Reset

\* Frame streams through one estimator instance, with resets.
Spec == Init /\ [][Next]_vars

InitCtor ==
    /\ \E c \in Classes : \E a \in ArgsOf(c, AllArgs) : Constructed(c, a)
    /\ GridIdle
    /\ MedianIdle

NextCtor == Estimator_first_call

\* Construction with any options, followed by the first frame.
SpecCtor == InitCtor /\ [][NextCtor]_vars

\* ------------------------------------------------------------ grid geometry: actions

EstimatorIdle == Constructed(BaseClass, DefaultArgs)

GridSides == 1..(2 * MaxGrid)

GetGrid ==
    /\ coords = <<>>
    /\ coords' = get_grid_coordinates(grid_size, img_size)
    /\ UNCHANGED <<grid_size, img_size, pair, pair_check, pair_overlap,
                   estimator_vars, median_vars>>

\* check_overlap and overlap on two cells of the grid
ComparePair ==
    /\ coords # <<>>
    /\ \E i \in 1..Len(coords), j \in 1..Len(coords) :
          /\ pair' = <<i, j>>
          /\ pair_check' = check_overlap(coords[i], coords[j])
          /\ pair_overlap' = overlap(coords[i], coords[j])
    /\ UNCHANGED <<grid_size, img_size, coords, estimator_vars, median_vars>>

InitGrid ==
    /\ grid_size \in 1..MaxGrid
    /\ img_size \in GridSides \X GridSides
    /\ coords = <<>>
    /\ pair = <<0, 0>>
    /\ pair_check = FALSE
    /\ pair_overlap = 0
    /\ EstimatorIdle
    /\ MedianIdle

NextGrid == GetGrid \/ ComparePair

\* The grid of an image, and the overlap tests on pairs of its cells.
SpecGrid == InitGrid /\ [][NextGrid]_vars

\* ------------------------------------------------------------ median estimator: actions

MedianPixels == {0, 3, 8}
MedianFrames == {<<p>> : p \in MedianPixels}

\* MedianForegroundEstimation.__call__(frame)
Median_call ==
    /\ Len(median_inputs) < MaxMedianCalls
    /\ \E frame \in MedianFrames :
          /\ foreground' = MedianForeground(frames_history, frame)
          /\ median_over' = Len(frames_history)
          /\ frames_history' = Append(TrimHistory(frames_history, num_frames), frame)
          /\ median_inputs' = Append(median_inputs, frame)
    /\ UNCHANGED <<num_frames, estimator_vars, grid_vars>>

\* MedianForegroundEstimation.__init__(num_frames)
InitMedian ==
    /\ num_frames \in 1..MaxNumFrames
    /\ frames_history = <<>>
    /\ foreground = <<>>
    /\ median_over = 0
    /\ median_inputs = <<>>
    /\ EstimatorIdle
    /\ GridIdle

NextMedian == Median_call

\* Frame streams through one MedianForegroundEstimation instance.
SpecMedian == InitMedian /\ [][NextMedian]_vars

\* ------------------------------------------------------------ properties

Shape(f) == <<Height(f), Width(f)>>

\* The names of the collaborator calls of the latest call, in order.
CallNames == [i \in 1..Len(calls) |-> calls[i].op]

FirstPassCalls == <<"KLT.init", "Stat.init", "Comp.init", "Stat.get_foreground">>
LaterPassCalls == <<"KLT.RunTrack", "Comp.compensate", "Stat.get_foreground">>

\* The outcomes a freshly constructed instance gives on a frame stream.
RECURSIVE RunFrom(_, _)
RunFrom(self, stream) ==
    IF stream = <<>> THEN <<>>
    ELSE LET t == get_foreground(self, Head(stream))
         IN <<t.out>> \o RunFrom(t.self, Tail(stream))

FreshRun(c, a, stream) == RunFrom(Construct(c, a), stream)

\* Every frame fed so far has the dimensions of the first one, which was
\* accepted: the streams on which no error path is involved.
CleanStream ==
    /\ Len(inputs) >= 1
    /\ outs[1].kind = "return"
    /\ \A i \in 1..Len(inputs) : Shape(inputs[i]) = Shape(inputs[1])

\* C1: after reset(), the frames replayed give the same foreground sequence
\* as a freshly constructed instance gives on them (the first frame after
\* the reset is handled as a first frame). Stated on the streams of equally
\* sized, accepted frames.
C1_ResetThenReplayEqualsFresh ==
    (reset_at >= 0 /\ CleanStream) =>
        SubSeq(outs, reset_at + 1, Len(outs))
            = FreshRun(cls, args, SubSeq(inputs, reset_at + 1, Len(inputs)))

\* C2: with a block size B > 0, the first frame of a fresh estimator raises
\* the dimensional error (the IOError of first_pass) and returns no
\* foreground map exactly when its height or its width is not a multiple of
\* B; otherwise the call returns a foreground map.
C2_DimensionError ==
    (Len(inputs) >= 1 /\ block_size > 0) =>
        LET h == Height(inputs[1])
            w == Width(inputs[1])
            bad == (h % block_size # 0) \/ (w % block_size # 0)
        IN /\ bad => outs[1] = Raised("IOError")
           /\ ~bad => outs[1].kind = "return"

\* C2 witness: a first frame of height 1 was refused by a block size 2.
C2_Witness ==
    /\ Len(inputs) = 1
    /\ block_size = 2
    /\ Shape(inputs[1]) = <<1, 2>>
    /\ outs[1].err = "IOError"
    /\ calls = <<>>

\* C3: once the first frame was accepted, a later frame of other dimensions
\* raises DimensionMismatch and no collaborator is run on it.
C3_DimensionMismatchRaised ==
    (/\ Len(inputs) >= 2
     /\ outs[1].kind = "return"
     /\ Shape(inputs[Len(inputs)]) # Shape(inputs[1])) =>
        /\ outs[Len(outs)] = Raised("DimensionMismatch")
        /\ calls = <<>>

\* The configurations the constructor is documented to accept.
ValidConfig(a) ==
    /\ a.num_models >= 2
    /\ a.block_size > 0
    /\ a.sensetivity \in {PyTrue, PyFalse, "mixed"}

\* C4: an instance constructed with num_models < 2, block_size <= 0 or a
\* sensetivity outside the three modes never reaches a call: the constructor
\* has raised.
C4_InvalidConfigNeverProcesses ==
    Len(inputs) >= 1 => ValidConfig(args)

\* C5: on every frame after the first, the image handed to the tracker and
\* to the statistical model is Gaussian7x7(median5(input)) when smooth is
\* true, and the input itself when smooth is false. Stated on the streams of
\* equally sized, accepted frames.
C5_SmoothingIsGaussianOfMedian ==
    (Len(inputs) >= 2 /\ CleanStream /\ CallNames = LaterPassCalls) =>
        LET frame == inputs[Len(inputs)]
            expected == IF Truthy(smooth) THEN GaussianBlur(medianBlur(frame))
                        ELSE frame
        IN /\ calls[1].frame = expected
           /\ calls[3].frame = expected

\* C6: after the dimensional error on the first frame, no later call on the
\* instance returns a foreground map or runs the first-frame initialisation.
C6_DimensionErrorIsFatal ==
    (Len(outs) >= 1 /\ outs[1] = Raised("IOError")) =>
        /\ \A i \in 2..Len(outs) : outs[i].kind = "raise"
        /\ calls = <<>>
        /\ statistical_models = NoneObj

\* C6 witness: the first frame was refused, and a later frame whose
\* dimensions are multiples of the block size was refused as well.
C6_Witness ==
    /\ Len(outs) >= 2
    /\ outs[1] = Raised("IOError")
    /\ block_size = 2
    /\ Shape(inputs[Len(inputs)]) = <<2, 2>>
    /\ outs[Len(outs)].kind = "raise"

\* The phases of the latest call, when it is the first call.
FirstCallPhases == CallNames = FirstPassCalls

\* The phases of the latest call, when it is a later call: one RunTrack, one
\* compensate on the models the statistical model held before the call, one
\* statistical get_foreground on that compensate's result.
LaterCallPhases ==
    /\ CallNames = LaterPassCalls
    /\ calls[2].args[2] = prev_models
    /\ calls[2].args[1] = RunTrack_H(calls[2].args[1].args[1], calls[1].frame)
    /\ calls[3].args = <<compensate(calls[2].args[1], calls[2].args[2])>>
    /\ calls[3].frame = calls[1].frame
    /\ statistical_models = Stat_update(calls[3].frame, calls[3].args[1])

\* C7 (as stated): the first call runs the first-frame initialisation once
\* and no RunTrack; every later call runs RunTrack, compensate on the
\* previous statistical state, and the statistical get_foreground, once each
\* and in this order.
C7_PhaseOrdering ==
    /\ Len(inputs) = 1 => FirstCallPhases
    /\ Len(inputs) >= 2 => LaterCallPhases

\* C7 (amended): the same, on an instance whose first call returned a
\* foreground map.
C7_PhaseOrderingWhenAccepted ==
    (Len(inputs) >= 1 /\ outs[1].kind = "return") =>
        /\ Len(inputs) = 1 => FirstCallPhases
        /\ Len(inputs) >= 2 => LaterCallPhases

\* C7 witness: a third call on an accepted stream, whose compensate was
\* given the statistical state the second call left.
C7_Witness ==
    /\ Len(inputs) = 3
    /\ outs[1].kind = "return"
    /\ LaterCallPhases
    /\ prev_models.op = "Stat.models"
    /\ prev_models.frame = calls[1].frame
    /\ prev_models.args[1].op = "compensate"

\* C9: the registered estimator holds the calc_probs, sensetivity and smooth
\* it was constructed with, and dynamic keeps its default False; constructed
\* with no arguments it holds False, 'mixed', True and False. Stated on the
\* documented configurations.
C9_OptionPassThrough ==
    (cls = RegisteredClass /\ ValidConfig(args)) =>
        /\ args = DefaultArgs =>
              /\ calc_probs = PyFalse
              /\ sensetivity = "mixed"
              /\ smooth = PyTrue
              /\ dynamic = PyFalse
        /\ calc_probs = args.calc_probs
        /\ sensetivity = args.sensetivity
        /\ smooth = args.smooth
        /\ dynamic = PyFalse

\* C8: for H and W multiples of B, get_grid_coordinates returns the
\* (H/B)*(W/B) cells in row-major order, the cell (gx, gy) being
\* [gx*B, gy*B, (gx+1)*B - 1, (gy+1)*B - 1]; distinct cells do not overlap
\* by check_overlap and by overlap, and every pixel lies in exactly one cell.
InCell(x, y, cell) ==
    /\ cell[1] <= x /\ x <= cell[3]
    /\ cell[2] <= y /\ y <= cell[4]

C8_GridGeometry ==
    LET B == grid_size
        H == img_size[1]
        W == img_size[2]
        Gh == H \div B
        Gw == W \div B
    IN (coords # <<>> /\ H % B = 0 /\ W % B = 0) =>
        /\ Len(coords) = Gh * Gw
        /\ \A gy \in 0..(Gh - 1), gx \in 0..(Gw - 1) :
              coords[gy * Gw + gx + 1]
                  = <<gx * B, gy * B, (gx + 1) * B - 1, (gy + 1) * B - 1>>
        /\ \A i \in 1..Len(coords), j \in 1..Len(coords) :
              i # j => /\ check_overlap(coords[i], coords[j]) = FALSE
                       /\ overlap(coords[i], coords[j]) = 0
        /\ \A x \in 0..(W - 1), y \in 0..(H - 1) :
              Cardinality({i \in 1..Len(coords) : InCell(x, y, coords[i])}) = 1
        /\ (pair # <<0, 0>> /\ pair[1] # pair[2]) =>
              (pair_check = FALSE /\ pair_overlap = 0)

\* C8 witness: a 4x4 image cut into four 2x2 cells, two neighbouring cells of
\* which were compared.
C8_Witness ==
    /\ grid_size = 2
    /\ img_size = <<4, 4>>
    /\ Len(coords) = 4
    /\ coords[4] = <<2, 2, 3, 3>>
    /\ pair = <<1, 2>>
    /\ pair_check = FALSE
    /\ pair_overlap = 0

\* C10: frames_history holds at most num_frames frames, the most recent ones
\* in arrival order; the median of a call is taken over at most num_frames
\* frames; the first call returns its input frame.
C10_BoundedHistory ==
    /\ Len(frames_history) <= num_frames
    /\ frames_history = LastN(median_inputs, Len(frames_history))
    /\ median_over <= num_frames
    /\ Len(median_inputs) = 1 => foreground = median_inputs[1]

====
